---- MODULE Spec2Model ----
(***************************************************************************)
(* Language-routing STT (plugins/stt/language_routing_stt.py) together    *)
(* with the two adapters it drives (whisper_stt.py,                       *)
(* aibharath_conformer_stt.py).                                           *)
(*                                                                         *)
(* Spec      one routing session: construction, then sequential           *)
(*           recognize calls, each with an arbitrary answer of the        *)
(*           detection service and of the two transcription backends.     *)
(* SpecAsync the same session with a recognize call split at its awaits:  *)
(*           the detection request and the transcription request are in   *)
(*           flight between steps, and the call can be cancelled there.   *)
(* SpecLock  _lock_language applied to the tally of an arbitrary sequence *)
(*           of votes.                                                     *)
(* SpecOverlap the session with recognize calls that overlap: each call  *)
(*           is a step to its detection request, a step to its            *)
(*           transcription request and a step to its return.              *)
(* SpecText  an adapter reading the 200 answer of its backend.            *)
(* SpecNorm  the normalisation of an AudioBuffer to 16 kHz mono samples.  *)
(***************************************************************************)
EXTENDS Integers, Sequences, FiniteSets, TLC

\* ---------------------------------------------------------------- bounds
\* recognize calls made in one session
MaxCalls == 5

\* recognize calls of one session that may be in progress at once
MaxOverlap == 2

\* frames in one AudioBuffer handed to the normalisation
MaxFrames == 2

\* int16 samples in the data of one frame
MaxSamples == 4
\* votes in a tally handed to _lock_language (SpecLock)
MaxVotes == 6

\* ------------------------------------------------------------- constants
\* Python's None
None == "None"
\* a JSON field that is not in the response body
Absent == "Absent"

SUPPORTED_LANGUAGES ==
    << "as", "bn", "brx", "doi", "gu", "hi", "kn", "kok", "ks", "mai",
       "ml", "mni", "mr", "ne", "or", "pa", "sa", "sat", "sd", "ta", "te", "ur" >>

INDIAN_LANGUAGES == { SUPPORTED_LANGUAGES[i] : i \in DOMAIN SUPPORTED_LANGUAGES }

MIN_DETECTIONS_FOR_LOCK == 3

\* language codes the detection service answers with in the model:
\* two regional codes, two general ones
DetectLangs == {"kn", "hi", "en", "fr"}

\* language_mode values a session is constructed with
LanguageModes == {"auto", "kn", "hi", "en", "fr"}

\* what the caller hands to recognize: no frame at all ("none"), frames that
\* hold no sample ("zero"), frames with samples ("frames"), or frames the
\* normalisation code raises on, such as a two-channel frame with an odd
\* number of samples in reshape(-1, 2) ("bad")
AudioKinds == {"none", "zero", "frames", "bad"}

\* mutant of IsSent: the "if not audio_chunks" return is missing
IsSent_NoEmptyReturn(buffer) == buffer \in {"none", "zero", "frames"}

\* audio_chunks is not empty and was normalised: the request is built and sent
IsSent(buffer) == buffer \in {"zero", "frames"}

\* the code ahead of the try block raises
NormalizeRaises(buffer) == buffer = "bad"

\* answers of the detection service: a 200 with a JSON body (the "language"
\* field a code, the empty string, JSON null or absent; "is_indian" a
\* boolean), a 200 whose body does not parse, a non-200, a transport error
\* or timeout
DetectResponses ==
    [outcome : {"ok200"}, language : DetectLangs \cup {"", None, Absent}, is_indian : BOOLEAN]
    \cup [outcome : {"badjson", "non200", "exception"}, language : {Absent}, is_indian : {FALSE}]

\* answers of a transcription backend
BackendOutcomes == {"ok200", "non200", "exception"}

\* what the two backends would answer to one utterance: the outcome of the
\* Whisper request, the language a Whisper 200 reports, the outcome of the
\* AIBharath request
BackendAnswers ==
    { << w_out, w_rep, ai_out >> : w_out \in BackendOutcomes, w_rep \in {Absent, "en"},
                                   ai_out \in BackendOutcomes }

\* the answers an utterance can meet: none when nothing is sent
DetectResponsesFor(buffer) ==
    IF buffer \in {"zero", "frames"} THEN DetectResponses
    ELSE {[outcome |-> "non200", language |-> Absent, is_indian |-> FALSE]}
BackendAnswersFor(buffer) ==
    IF buffer \in {"zero", "frames"}
    THEN {b \in BackendAnswers : b[1] # "ok200" => b[2] = Absent}
    ELSE {<< "non200", Absent, "non200" >>}

\* a backend that is sent no request gives no answer: its answer is drawn
\* only when one of the adapter invocations sends a request to it
Asked(calls, adapter) ==
    \E i \in DOMAIN calls : calls[i].adapter = adapter /\ calls[i].request
AnswersOfAskedOnly(calls, b) ==
    /\ ~Asked(calls, "whisper") => (b[1] = "non200" /\ b[2] = Absent)
    /\ ~Asked(calls, "aibharath") => b[3] = "non200"

\* no detection request was made
NoResponse == [outcome |-> "none", language |-> Absent, is_indian |-> FALSE]

\* nothing was returned
NoEvent == [language |-> None, text |-> ""]

\* ----------------------------------------------------------------- state
VARIABLES
    language_mode,       \* STT._language_mode
    language_counts,     \* RoutingState.language_counts: Counter, kept in insertion order
    detection_count,     \* RoutingState.detection_count
    locked_language,     \* RoutingState.locked_language
    use_aibharath,       \* RoutingState.use_aibharath
    aibharath_language,  \* STT._aibharath._opts.language
    whisper_language,    \* STT._whisper._opts.language
    ncalls,              \* recognize calls made so far
    vote_log,            \* the languages voted so far, in order
    lock_count,          \* executions of _lock_language so far
    was_locked,          \* the last recognize call started in the locked state
    audio,               \* the buffer of the last recognize call
    detect_requests,     \* POST /detect-language requests issued by the last call
    detected,            \* what _detect_language_voxlingua returned to the last call
    service_flag,        \* "is_indian" of the detection response of the last call
    detect_response,     \* the detection response the last call received
    raised,              \* the last call raised instead of returning
    client_session,      \* _session of the router and of each adapter: 0 is None,
                         \* k is the k-th ClientSession the instance made, open
    sessions_made,       \* ClientSession() constructions of each instance
    aclose_state,        \* "no": aclose not called; "done": it returned; "raised"
    pc,                  \* where the recognize call in progress is suspended:
                         \* "idle" (none), "detecting", "transcribing"
    before,              \* RoutingState when the call in progress, or the last one, began
    cancelled_at,        \* the await at which the last call was cancelled, or "no"
    dispatch,            \* adapter invocations of the last call, in order
    result,              \* the SpeechEvent the last call returned
    reply,               \* a 200 answer of a transcription backend: the adapter that
                         \* reads it, its translate_to_english option, the JSON body
    event_text,          \* the text of the SpeechEvent the adapter makes of reply
    frames,              \* an AudioBuffer handed to the normalisation: its frames
    audio_data,          \* the 16 kHz mono PCM samples the normalisation makes of frames
    audio_again,         \* the samples the normalisation makes of audio_data
    suspended            \* of each of the recognize calls that may overlap, the await it
                         \* is suspended at: "idle" (not running), "detecting", "transcribing"

vars == << language_mode, language_counts, detection_count, locked_language,
           use_aibharath, aibharath_language, whisper_language, ncalls,
           vote_log, lock_count, was_locked, audio, detect_requests, detected,
           service_flag, detect_response, raised, client_session, sessions_made,
           aclose_state, pc, before, cancelled_at, dispatch, result,
           reply, event_text, frames, audio_data, audio_again, suspended >>

\* the variables only a suspended recognize call changes
async_vars == << pc, before, cancelled_at >>

\* the variables of the specifications of single functions
aux_vars == << reply, event_text, frames, audio_data, audio_again, suspended >>

\* the variables of one routing session
session_vars == << language_mode, language_counts, detection_count, locked_language,
                   use_aibharath, aibharath_language, whisper_language, ncalls,
                   vote_log, lock_count, was_locked, audio, detect_requests, detected,
                   service_flag, detect_response, raised, client_session, sessions_made,
                   aclose_state, pc, before, cancelled_at, dispatch, result >>

\* no answer was read
NoReply == [adapter |-> "none", translate_to_english |-> FALSE,
            data |-> [text |-> Absent, translated_text |-> Absent]]

\* what the normalisation leaves: nothing while it has not run, the return
\* of line 102 without samples, or the samples written to the WAV
NotRun == [state |-> "not run", pcm |-> << >>]
ReturnedEarly == [state |-> "returned early", pcm |-> << >>]
Samples(pcm) == [state |-> "samples", pcm |-> pcm]

\* the recognize calls that may overlap, none of them running
Overlapping == 1..MaxOverlap
NoneRunning == [k \in Overlapping |-> "idle"]

\* the variables of the specifications of single functions, out of use
AuxInit ==
    /\ reply = NoReply
    /\ event_text = Absent
    /\ frames = << >>
    /\ audio_data = NotRun
    /\ audio_again = NotRun
    /\ suspended = NoneRunning

\* RoutingState and the log of votes, as a value
Snapshot(counts, count, locked, use, votes) ==
    [ language_counts |-> counts, detection_count |-> count, locked_language |-> locked,
      use_aibharath |-> use, vote_log |-> votes ]

\* a session just constructed in auto mode, on which no call is made
SessionAtRest ==
    /\ language_mode = "auto"
    /\ language_counts = << >>
    /\ detection_count = 0
    /\ locked_language = None
    /\ use_aibharath = FALSE
    /\ aibharath_language = "hi"
    /\ whisper_language = "auto"
    /\ ncalls = 0
    /\ vote_log = << >>
    /\ lock_count = 0
    /\ was_locked = FALSE
    /\ audio = "none"
    /\ detect_requests = 0
    /\ detected = None
    /\ service_flag = FALSE
    /\ detect_response = [outcome |-> "none", language |-> Absent, is_indian |-> FALSE]
    /\ raised = FALSE
    /\ client_session = [i \in {"router", "whisper", "aibharath"} |-> 0]
    /\ sessions_made = [i \in {"router", "whisper", "aibharath"} |-> 0]
    /\ aclose_state = "no"
    /\ pc = "idle"
    /\ before = Snapshot(<< >>, 0, None, FALSE, << >>)
    /\ cancelled_at = "no"
    /\ dispatch = << >>
    /\ result = [language |-> None, text |-> ""]


\* ------------------------------------------------------- Python helpers
\* truth value of a str | None
Truthy(x) == x # None /\ x # ""

\* Counter[key] += 1 on an insertion-ordered dict: a new key goes last
CounterIncrement(counts, key) ==
    IF \E i \in DOMAIN counts : counts[i].lang = key
    THEN [i \in DOMAIN counts |->
            IF counts[i].lang = key
            THEN [lang |-> key, n |-> counts[i].n + 1]
            ELSE counts[i]]
    ELSE Append(counts, [lang |-> key, n |-> 1])

\* {k: v for k, v in counts.items() if k in INDIAN_LANGUAGES}
IndianCounts(counts) == SelectSeq(counts, LAMBDA e : e.lang \in INDIAN_LANGUAGES)

\* {k: v for k, v in counts.items() if k not in INDIAN_LANGUAGES}
NonIndianCounts(counts) == SelectSeq(counts, LAMBDA e : e.lang \notin INDIAN_LANGUAGES)

\* max(d.values()) if d else 0
MaxValue(d) ==
    IF d = << >> THEN 0
    ELSE CHOOSE m \in {d[i].n : i \in DOMAIN d} : \A i \in DOMAIN d : d[i].n <= m

\* mutant of MaxKey: the first key, whatever its value
MaxKey_FirstKey(d) == d[1].lang

\* mutant of MaxKey: the last key of the highest value (a scan with >=)
MaxKey_LastSeen(d) ==
    LET m == MaxValue(d)
        last == CHOOSE i \in DOMAIN d :
                    /\ d[i].n = m
                    /\ \A j \in DOMAIN d : d[j].n = m => j <= i
    IN d[last].lang

\* max(d, key=d.get): the first key, in iteration order, of the highest value
MaxKey(d) ==
    LET m == MaxValue(d)
        first == CHOOSE i \in DOMAIN d :
                    /\ d[i].n = m
                    /\ \A j \in DOMAIN d : d[j].n = m => i <= j
    IN d[first].lang

\* ------------------------------------------------------ client sessions
\* the three objects that hold an aiohttp.ClientSession
Instances == {"router", "whisper", "aibharath"}

\* mutant of EnsureSession: a new ClientSession for every request
EnsureSession_Fresh(session, made) == [session |-> made + 1, made |-> made + 1]

\* _ensure_session: a new ClientSession when there is none (a session that is
\* closed is never kept: aclose sets _session to None right after close())
EnsureSession(session, made) ==
    IF session = 0
    THEN [session |-> made + 1, made |-> made + 1]
    ELSE [session |-> session, made |-> made]

\* the requests a recognize call sends, per instance: the detection request
\* is the router's, a transcription request is its adapter's
Sends(instance, detections, calls) ==
    IF instance = "router" THEN detections > 0
    ELSE \E i \in DOMAIN calls : calls[i].adapter = instance /\ calls[i].request

\* _session of every instance after a recognize call: _ensure_session runs
\* right before a request is sent
SessionsAfter(sessions, made, detections, calls) ==
    [i \in Instances |->
        IF Sends(i, detections, calls) THEN EnsureSession(sessions[i], made[i])
        ELSE [session |-> sessions[i], made |-> made[i]]]

\* ------------------------------------------------------------- adapters
\* mutant of AIBharathUpdateOptions: the new language is dropped
AIBharathUpdateOptions_Dropped(current, language) == current

\* AIBharath STT.update_options(language=...): only a supported code is taken
AIBharathUpdateOptions(current, language) ==
    IF Truthy(language) /\ language \in INDIAN_LANGUAGES THEN language ELSE current

\* AIBharath STT._recognize_impl: lang is _opts.language; no frames returns
\* the empty transcript before any request; a non-200 or a failed request
\* gives text ""
AIBharathRecognize(lang, buffer, outcome) ==
    [ call   |-> [adapter |-> "aibharath", language |-> lang, request |-> IsSent(buffer),
                  outcome |-> IF IsSent(buffer) THEN outcome ELSE "none"],
      raised |-> NormalizeRaises(buffer),
      event  |-> IF NormalizeRaises(buffer) THEN NoEvent
                 ELSE [language |-> lang,
                       text |-> IF IsSent(buffer) /\ outcome = "ok200" THEN "text" ELSE ""] ]

\* Whisper STT._recognize_impl: as above; on a 200 the language of the event
\* is the one the service reports, when it reports one
WhisperRecognize(lang, buffer, outcome, reported) ==
    [ call   |-> [adapter |-> "whisper", language |-> lang, request |-> IsSent(buffer),
                  outcome |-> IF IsSent(buffer) THEN outcome ELSE "none"],
      raised |-> NormalizeRaises(buffer),
      event  |-> IF NormalizeRaises(buffer) THEN NoEvent
                 ELSE [language |-> IF IsSent(buffer) /\ outcome = "ok200" /\ reported # Absent
                                    THEN reported ELSE lang,
                       text |-> IF IsSent(buffer) /\ outcome = "ok200" THEN "text" ELSE ""] ]

\* --------------------------------------------------------------- router
\* mutant of DetectLanguageVoxlingua: a request that fails is sent once more
DetectLanguageVoxlingua_Retry(buffer, resp) ==
    IF ~IsSent(buffer)
    THEN [requests |-> 0, lang |-> None, is_indian |-> FALSE, response |-> NoResponse,
          raised |-> NormalizeRaises(buffer)]
    ELSE IF resp.outcome = "ok200"
         THEN [requests |-> 1,
               lang |-> IF resp.language = Absent THEN "en" ELSE resp.language,
               is_indian |-> resp.is_indian, response |-> resp, raised |-> FALSE]
         ELSE [requests |-> 2, lang |-> None, is_indian |-> FALSE, response |-> resp,
               raised |-> FALSE]

\* mutant of DetectLanguageVoxlingua: a non-200 answer gives the default "en"
DetectLanguageVoxlingua_Non200Default(buffer, resp) ==
    IF ~IsSent(buffer)
    THEN [requests |-> 0, lang |-> None, is_indian |-> FALSE, response |-> NoResponse,
          raised |-> NormalizeRaises(buffer)]
    ELSE IF resp.outcome \in {"ok200", "non200"}
         THEN [requests |-> 1,
               lang |-> IF resp.language = Absent THEN "en" ELSE resp.language,
               is_indian |-> resp.is_indian, response |-> resp, raised |-> FALSE]
         ELSE [requests |-> 1, lang |-> None, is_indian |-> FALSE, response |-> resp,
               raised |-> FALSE]

\* mutant of DetectLanguageVoxlingua: data.get("language") without a default
DetectLanguageVoxlingua_NoDefault(buffer, resp) ==
    IF ~IsSent(buffer)
    THEN [requests |-> 0, lang |-> None, is_indian |-> FALSE, response |-> NoResponse,
          raised |-> NormalizeRaises(buffer)]
    ELSE IF resp.outcome = "ok200"
         THEN [requests |-> 1,
               lang |-> IF resp.language = Absent THEN None ELSE resp.language,
               is_indian |-> resp.is_indian, response |-> resp, raised |-> FALSE]
         ELSE [requests |-> 1, lang |-> None, is_indian |-> FALSE, response |-> resp,
               raised |-> FALSE]

\* STT._detect_language_voxlingua: None without a request when there is no
\* frame; otherwise one request, and the "language" of a 200 body ("en" when
\* the field is absent), None for everything else. "is_indian" is read for
\* the log line only.
DetectLanguageVoxlingua(buffer, resp) ==
    IF ~IsSent(buffer)
    THEN [requests |-> 0, lang |-> None, is_indian |-> FALSE, response |-> NoResponse,
          raised |-> NormalizeRaises(buffer)]
    ELSE IF resp.outcome = "ok200"
         THEN [requests |-> 1,
               lang |-> IF resp.language = Absent THEN "en" ELSE resp.language,
               is_indian |-> resp.is_indian, response |-> resp, raised |-> FALSE]
         ELSE [requests |-> 1, lang |-> None, is_indian |-> FALSE, response |-> resp,
               raised |-> FALSE]

\* mutant of IsIndian: the membership test is inverted
IsIndian_Inverted(lang) == IF Truthy(lang) THEN lang \notin INDIAN_LANGUAGES ELSE FALSE

\* is_indian = detected in INDIAN_LANGUAGES if detected else False
IsIndian(lang) == IF Truthy(lang) THEN lang \in INDIAN_LANGUAGES ELSE FALSE

\* mutant of QuorumReached: the lock is taken one vote early
QuorumReached_Early(count) == count >= MIN_DETECTIONS_FOR_LOCK - 1

\* mutant of QuorumReached: > in place of >=
QuorumReached_Late(count) == count > MIN_DETECTIONS_FOR_LOCK

\* if state.detection_count >= MIN_DETECTIONS_FOR_LOCK
QuorumReached(count) == count >= MIN_DETECTIONS_FOR_LOCK

\* mutant of LockLanguage: use_aibharath is left FALSE
LockLanguage_FlagUnset(counts) ==
    LET indian_counts     == IndianCounts(counts)
        non_indian_counts == NonIndianCounts(counts)
        max_indian        == MaxValue(indian_counts)
        max_non_indian    == MaxValue(non_indian_counts)
    IN  IF max_indian >= max_non_indian /\ indian_counts # << >>
        THEN [raised |-> FALSE, most_common |-> MaxKey(indian_counts), use_aibharath |-> FALSE]
        ELSE IF non_indian_counts # << >>
        THEN [raised |-> FALSE, most_common |-> MaxKey(non_indian_counts), use_aibharath |-> FALSE]
        ELSE IF counts = << >>
        THEN [raised |-> TRUE, most_common |-> None, use_aibharath |-> FALSE]
        ELSE [raised |-> FALSE, most_common |-> MaxKey(counts), use_aibharath |-> FALSE]

\* mutant of LockLanguage: > in place of >= between the two maxima
LockLanguage_StrictTie(counts) ==
    LET indian_counts     == IndianCounts(counts)
        non_indian_counts == NonIndianCounts(counts)
        max_indian        == MaxValue(indian_counts)
        max_non_indian    == MaxValue(non_indian_counts)
    IN  IF max_indian > max_non_indian /\ indian_counts # << >>
        THEN [raised |-> FALSE, most_common |-> MaxKey(indian_counts), use_aibharath |-> TRUE]
        ELSE IF non_indian_counts # << >>
        THEN [raised |-> FALSE, most_common |-> MaxKey(non_indian_counts), use_aibharath |-> FALSE]
        ELSE IF counts = << >>
        THEN [raised |-> TRUE, most_common |-> None, use_aibharath |-> FALSE]
        ELSE [raised |-> FALSE, most_common |-> MaxKey(counts),
              use_aibharath |-> (MaxKey(counts) \in INDIAN_LANGUAGES)]

\* mutant of LockLanguage: any Indian vote wins, the maxima are not compared
LockLanguage_AnyIndian(counts) ==
    LET indian_counts     == IndianCounts(counts)
        non_indian_counts == NonIndianCounts(counts)
    IN  IF indian_counts # << >>
        THEN [raised |-> FALSE, most_common |-> MaxKey(indian_counts), use_aibharath |-> TRUE]
        ELSE IF non_indian_counts # << >>
        THEN [raised |-> FALSE, most_common |-> MaxKey(non_indian_counts), use_aibharath |-> FALSE]
        ELSE IF counts = << >>
        THEN [raised |-> TRUE, most_common |-> None, use_aibharath |-> FALSE]
        ELSE [raised |-> FALSE, most_common |-> MaxKey(counts),
              use_aibharath |-> (MaxKey(counts) \in INDIAN_LANGUAGES)]

\* STT._lock_language: the language and the backend family the tally resolves
\* to; counts.most_common(1)[0] of an empty Counter raises IndexError
LockLanguage(counts) ==
    LET indian_counts     == IndianCounts(counts)
        non_indian_counts == NonIndianCounts(counts)
        max_indian        == MaxValue(indian_counts)
        max_non_indian    == MaxValue(non_indian_counts)
    IN  IF max_indian >= max_non_indian /\ indian_counts # << >>
        THEN [raised |-> FALSE, most_common |-> MaxKey(indian_counts), use_aibharath |-> TRUE]
        ELSE IF non_indian_counts # << >>
        THEN [raised |-> FALSE, most_common |-> MaxKey(non_indian_counts), use_aibharath |-> FALSE]
        ELSE IF counts = << >>
        THEN [raised |-> TRUE, most_common |-> None, use_aibharath |-> FALSE]
        ELSE [raised |-> FALSE, most_common |-> MaxKey(counts),
              use_aibharath |-> (MaxKey(counts) \in INDIAN_LANGUAGES)]

\* mutant of IsLocked: the early return of a locked session is never taken
IsLocked_Never(locked) == FALSE

\* if state.locked_language: (line 167)
IsLocked(locked) == Truthy(locked)

\* STT._transcribe_with_locked: the adapter use_aibharath selects
TranscribeWithLocked(use, ai_lang, w_lang, buffer, w_out, w_rep, ai_out) ==
    IF use
    THEN AIBharathRecognize(ai_lang, buffer, ai_out)
    ELSE WhisperRecognize(w_lang, buffer, w_out, w_rep)

\* STT._recognize_impl, lines 183-198: the routing of the utterance once the
\* vote is taken; locked and use are the lock of this call, if it locked
RouteDetected(counts, count, ai_lang, w_lang, buffer, det, voted, locks, locked, use, w_out, w_rep, ai_out) ==
    LET is_indian == IsIndian(det.lang)
        first     == IF Truthy(locked)
                     THEN TranscribeWithLocked(use, ai_lang, w_lang, buffer, w_out, w_rep, ai_out)
                     ELSE IF is_indian
                     THEN AIBharathRecognize(ai_lang, buffer, ai_out)
                     ELSE WhisperRecognize(w_lang, buffer, w_out, w_rep)
        fallback  == AIBharathRecognize(ai_lang, buffer, ai_out)
        falls     == ~Truthy(locked) /\ ~is_indian /\ first.raised
    IN  [ voted              |-> voted,
          language_counts    |-> counts,
          detection_count    |-> count,
          locks              |-> locks,
          locked_language    |-> locked,
          use_aibharath      |-> use,
          aibharath_language |-> ai_lang,
          detect_requests    |-> det.requests,
          detected           |-> det.lang,
          service_flag       |-> det.is_indian,
          detect_response    |-> det.response,
          raised             |-> IF falls THEN fallback.raised ELSE first.raised,
          dispatch           |-> IF falls THEN << first.call, fallback.call >> ELSE << first.call >>,
          result             |-> IF falls THEN fallback.event ELSE first.event ]

\* STT._recognize_impl, lines 179-189: _lock_language when the quorum is
\* reached, and the update_options calls of the lock and of the live routing
LockOnQuorum(counts, count, ai_lang, w_lang, buffer, det, voted, lock, w_out, w_rep, ai_out) ==
    LET locks    == voted /\ QuorumReached(count)
        locked   == IF locks THEN lock.most_common ELSE None
        use      == IF locks THEN lock.use_aibharath ELSE FALSE
        ai_lang1 == IF locks /\ use THEN AIBharathUpdateOptions(ai_lang, locked) ELSE ai_lang
        ai_lang2 == IF ~Truthy(locked) /\ IsIndian(det.lang)
                    THEN AIBharathUpdateOptions(ai_lang1, det.lang) ELSE ai_lang1
    IN  RouteDetected(counts, count, ai_lang2, w_lang, buffer, det, voted, locks, locked, use,
                      w_out, w_rep, ai_out)

\* STT._recognize_impl, lines 171-177: the vote, when a language was detected
VoteDetected(counts, count, ai_lang, w_lang, buffer, det, w_out, w_rep, ai_out) ==
    IF det.raised
    THEN [ voted |-> FALSE, language_counts |-> counts, detection_count |-> count,
           locks |-> FALSE, locked_language |-> None, use_aibharath |-> FALSE,
           aibharath_language |-> ai_lang, detect_requests |-> 0, detected |-> None,
           service_flag |-> FALSE, detect_response |-> NoResponse, raised |-> TRUE,
           dispatch |-> << >>, result |-> NoEvent ]
    ELSE IF Truthy(det.lang)
    THEN LockOnQuorum(CounterIncrement(counts, det.lang), count + 1, ai_lang, w_lang, buffer,
                      det, TRUE, LockLanguage(CounterIncrement(counts, det.lang)),
                      w_out, w_rep, ai_out)
    ELSE LockOnQuorum(counts, count, ai_lang, w_lang, buffer, det, FALSE, LockLanguage(counts),
                      w_out, w_rep, ai_out)

\* STT._recognize_impl, detection phase (lines 171-198): the detection, the
\* vote, the lock when the quorum is reached, and the routing of this
\* utterance
RecognizeDetecting(counts, count, ai_lang, w_lang, buffer, resp, w_out, w_rep, ai_out) ==
    VoteDetected(counts, count, ai_lang, w_lang, buffer, DetectLanguageVoxlingua(buffer, resp),
                 w_out, w_rep, ai_out)

\* mutant of FixedLock: the language_mode is not looked at
FixedLock_Ignored(mode) == None

\* STT.__init__, lines 68-69: a language_mode other than "auto" is the lock
FixedLock(mode) == IF mode # "auto" THEN mode ELSE None

\* ---------------------------------------------------------------- Init
\* STT.__init__: a fresh RoutingState; a fixed language_mode locks at once
Init ==
    /\ language_mode \in LanguageModes
    /\ language_counts = << >>
    /\ detection_count = 0
    /\ locked_language = FixedLock(language_mode)
    /\ use_aibharath = IF language_mode # "auto" THEN language_mode \in INDIAN_LANGUAGES ELSE FALSE
    /\ aibharath_language =
          IF language_mode # "auto" /\ language_mode \in INDIAN_LANGUAGES
          THEN AIBharathUpdateOptions("hi", language_mode) ELSE "hi"
    /\ whisper_language = "auto"
    /\ ncalls = 0
    /\ vote_log = << >>
    /\ lock_count = 0
    /\ was_locked = FALSE
    /\ audio = "none"
    /\ detect_requests = 0
    /\ detected = None
    /\ service_flag = FALSE
    /\ detect_response = NoResponse
    /\ raised = FALSE
    /\ client_session = [i \in Instances |-> 0]
    /\ sessions_made = [i \in Instances |-> 0]
    /\ aclose_state = "no"
    /\ pc = "idle"
    /\ before = Snapshot(<< >>, 0, None, FALSE, << >>)
    /\ cancelled_at = "no"
    /\ dispatch = << >>
    /\ result = NoEvent
    /\ AuxInit

\* -------------------------------------------------------------- actions
\* STT._recognize_impl on a locked session (lines 164-168)
RecognizeLocked ==
    /\ ncalls < MaxCalls
    /\ aclose_state = "no"
    /\ pc = "idle"
    /\ UNCHANGED async_vars
    /\ UNCHANGED aux_vars
    /\ IsLocked(locked_language)
    /\ \E buffer \in AudioKinds : \E b \in BackendAnswersFor(buffer) :
          \E r \in {TranscribeWithLocked(use_aibharath, aibharath_language, whisper_language,
                                         buffer, b[1], b[2], b[3])} :
              /\ AnswersOfAskedOnly(<< r.call >>, b)
              /\ audio' = buffer
              /\ dispatch' = << r.call >>
              /\ result' = r.event
              /\ raised' = r.raised
              /\ \E c \in {SessionsAfter(client_session, sessions_made, 0, << r.call >>)} :
                    /\ client_session' = [i \in Instances |-> c[i].session]
                    /\ sessions_made' = [i \in Instances |-> c[i].made]
    /\ was_locked' = TRUE
    /\ detect_requests' = 0
    /\ detected' = None
    /\ service_flag' = FALSE
    /\ detect_response' = NoResponse
    /\ ncalls' = ncalls + 1
    /\ UNCHANGED << language_mode, language_counts, detection_count, locked_language,
                    use_aibharath, aibharath_language, whisper_language, vote_log,
                    lock_count, aclose_state >>

\* STT._recognize_impl on a session that is not locked (lines 164-198)
RecognizeUnlocked ==
    /\ ncalls < MaxCalls
    /\ aclose_state = "no"
    /\ pc = "idle"
    /\ UNCHANGED async_vars
    /\ UNCHANGED aux_vars
    /\ ~IsLocked(locked_language)
    /\ \E buffer \in AudioKinds : \E resp \in DetectResponsesFor(buffer) :
          \E b \in BackendAnswersFor(buffer) :
          \E r \in {RecognizeDetecting(language_counts, detection_count, aibharath_language,
                                       whisper_language, buffer, resp, b[1], b[2], b[3])} :
              /\ AnswersOfAskedOnly(r.dispatch, b)
              /\ audio' = buffer
              /\ language_counts' = r.language_counts
              /\ detection_count' = r.detection_count
              /\ vote_log' = IF r.voted THEN Append(vote_log, r.detected) ELSE vote_log
              /\ locked_language' = IF r.locks THEN r.locked_language ELSE locked_language
              /\ use_aibharath' = IF r.locks THEN r.use_aibharath ELSE use_aibharath
              /\ lock_count' = IF r.locks THEN lock_count + 1 ELSE lock_count
              /\ aibharath_language' = r.aibharath_language
              /\ detect_requests' = r.detect_requests
              /\ detected' = r.detected
              /\ service_flag' = r.service_flag
              /\ detect_response' = r.detect_response
              /\ raised' = r.raised
              /\ dispatch' = r.dispatch
              /\ result' = r.result
              /\ \E c \in {SessionsAfter(client_session, sessions_made, r.detect_requests,
                                          r.dispatch)} :
                    /\ client_session' = [i \in Instances |-> c[i].session]
                    /\ sessions_made' = [i \in Instances |-> c[i].made]
    /\ was_locked' = FALSE
    /\ ncalls' = ncalls + 1
    /\ UNCHANGED << language_mode, whisper_language, aclose_state >>

\* the order in which STT.aclose closes: the Whisper adapter, the AIBharath
\* adapter, then the router's own session
CloseOrder == << "whisper", "aibharath", "router" >>

\* the sessions aclose has a close() call for: those that are not None
Closable(sessions) == { i \in Instances : sessions[i] # 0 }

\* _session of every instance after aclose when the close() of instance
\* failing raises ("nobody" when no close() raises): the sessions ahead of it
\* in CloseOrder were closed and set to None, its own session and the ones
\* behind it are as they were
SessionsAfterClose(sessions, failing) ==
    LET rank(i) == CHOOSE k \in DOMAIN CloseOrder : CloseOrder[k] = i
    IN  [i \in Instances |->
            IF failing = "nobody" \/ rank(i) < rank(failing) THEN 0 ELSE sessions[i]]

\* STT.aclose (lines 80-85) with the adapters' aclose (whisper_stt.py 74-77,
\* aibharath_conformer_stt.py 93-96)
Aclose ==
    /\ aclose_state = "no"
    /\ pc = "idle"
    /\ UNCHANGED async_vars
    /\ UNCHANGED aux_vars
    /\ \E failing \in Closable(client_session) \cup {"nobody"} :
          /\ client_session' = SessionsAfterClose(client_session, failing)
          /\ aclose_state' = IF failing = "nobody" THEN "done" ELSE "raised"
    /\ UNCHANGED << language_mode, language_counts, detection_count, locked_language,
                    use_aibharath, aibharath_language, whisper_language, ncalls, vote_log,
                    lock_count, was_locked, audio, detect_requests, detected, service_flag,
                    detect_response, raised, sessions_made, dispatch, result >>

Next == RecognizeLocked \/ RecognizeUnlocked \/ Aclose

Spec == Init /\ [][Next]_vars

\* ----------------------------------------------------------- SpecAsync
\* an adapter invocation whose request is in flight
InFlight(call) == [call EXCEPT !.outcome = "pending"]

\* the answers of backends that are not asked
NotAsked == << "non200", Absent, "non200" >>

\* mutant of CaughtByExceptException: CancelledError taken for an Exception
CaughtByExceptException_All(exc) == TRUE

\* "except Exception" (line 153, whisper_stt.py 163, aibharath_conformer_stt.py
\* 196): asyncio.CancelledError derives from BaseException and passes through
CaughtByExceptException(exc) == exc # "CancelledError"

\* STT._recognize_impl up to its first await: a call that sends nothing runs
\* to its end, a locked session suspends in the transcription request
\* (line 168), an unlocked one in the detection request (line 171)
BeginRecognize ==
    /\ ncalls < MaxCalls
    /\ aclose_state = "no"
    /\ pc = "idle"
    /\ \E buffer \in AudioKinds :
          /\ audio' = buffer
          /\ IF IsLocked(locked_language)
             THEN \E r \in {TranscribeWithLocked(use_aibharath, aibharath_language,
                                                 whisper_language, buffer,
                                                 NotAsked[1], NotAsked[2], NotAsked[3])} :
                    /\ dispatch' = IF IsSent(buffer) THEN << InFlight(r.call) >> ELSE << r.call >>
                    /\ result' = IF IsSent(buffer) THEN NoEvent ELSE r.event
                    /\ raised' = r.raised
                    /\ detect_requests' = 0
                    /\ pc' = IF IsSent(buffer) THEN "transcribing" ELSE "idle"
                    /\ \E c \in {SessionsAfter(client_session, sessions_made, 0, << r.call >>)} :
                          /\ client_session' = [i \in Instances |-> c[i].session]
                          /\ sessions_made' = [i \in Instances |-> c[i].made]
             ELSE IF IsSent(buffer)
             THEN /\ dispatch' = << >>
                  /\ result' = NoEvent
                  /\ raised' = FALSE
                  /\ detect_requests' = 1
                  /\ pc' = "detecting"
                  /\ \E c \in {SessionsAfter(client_session, sessions_made, 1, << >>)} :
                        /\ client_session' = [i \in Instances |-> c[i].session]
                        /\ sessions_made' = [i \in Instances |-> c[i].made]
             ELSE \E r \in {RecognizeDetecting(language_counts, detection_count,
                                                aibharath_language, whisper_language, buffer,
                                                NoResponse, NotAsked[1], NotAsked[2],
                                                NotAsked[3])} :
                    /\ dispatch' = r.dispatch
                    /\ result' = r.result
                    /\ raised' = r.raised
                    /\ detect_requests' = 0
                    /\ pc' = "idle"
                    /\ UNCHANGED << client_session, sessions_made >>
    /\ before' = Snapshot(language_counts, detection_count, locked_language, use_aibharath,
                          vote_log)
    /\ cancelled_at' = "no"
    /\ UNCHANGED aux_vars
    /\ was_locked' = IsLocked(locked_language)
    /\ detected' = None
    /\ service_flag' = FALSE
    /\ detect_response' = NoResponse
    /\ ncalls' = ncalls + 1
    /\ UNCHANGED << language_mode, language_counts, detection_count, locked_language,
                    use_aibharath, aibharath_language, whisper_language, vote_log,
                    lock_count, aclose_state >>

\* STT._recognize_impl from the answer of the detection request to the
\* transcription request (lines 171-198): the vote, the lock on quorum, the
\* choice of the adapter, whose request is then in flight
DetectionAnswered(resp) ==
    /\ pc = "detecting"
    /\ \E r \in {RecognizeDetecting(language_counts, detection_count, aibharath_language,
                                     whisper_language, audio, resp,
                                     NotAsked[1], NotAsked[2], NotAsked[3])} :
          /\ language_counts' = r.language_counts
          /\ detection_count' = r.detection_count
          /\ vote_log' = IF r.voted THEN Append(vote_log, r.detected) ELSE vote_log
          /\ locked_language' = IF r.locks THEN r.locked_language ELSE locked_language
          /\ use_aibharath' = IF r.locks THEN r.use_aibharath ELSE use_aibharath
          /\ lock_count' = IF r.locks THEN lock_count + 1 ELSE lock_count
          /\ aibharath_language' = r.aibharath_language
          /\ detected' = r.detected
          /\ service_flag' = r.service_flag
          /\ detect_response' = r.detect_response
          /\ dispatch' = << InFlight(r.dispatch[1]) >>
          /\ \E c \in {SessionsAfter(client_session, sessions_made, 0, r.dispatch)} :
                /\ client_session' = [i \in Instances |-> c[i].session]
                /\ sessions_made' = [i \in Instances |-> c[i].made]
    /\ pc' = "transcribing"
    /\ UNCHANGED aux_vars
    /\ UNCHANGED << language_mode, whisper_language, ncalls, was_locked, audio,
                    detect_requests, raised, aclose_state, before, result >>

\* the adapter's _recognize_impl from the answer of its request to its return,
\* which is the return of the router's _recognize_impl
TranscriptionAnswered(b) ==
    /\ pc = "transcribing"
    /\ \E r \in {IF dispatch[1].adapter = "whisper"
                  THEN WhisperRecognize(dispatch[1].language, audio, b[1], b[2])
                  ELSE AIBharathRecognize(dispatch[1].language, audio, b[3])} :
          /\ AnswersOfAskedOnly(<< r.call >>, b)
          /\ dispatch' = << r.call >>
          /\ result' = r.event
          /\ raised' = r.raised
    /\ pc' = "idle"
    /\ UNCHANGED aux_vars
    /\ UNCHANGED << language_mode, language_counts, detection_count, locked_language,
                    use_aibharath, aibharath_language, whisper_language, ncalls, vote_log,
                    lock_count, was_locked, audio, detect_requests, detected, service_flag,
                    detect_response, client_session, sessions_made, aclose_state, before >>

\* the detection service answers
DetectionReturns ==
    /\ \E resp \in DetectResponses : DetectionAnswered(resp)
    /\ UNCHANGED cancelled_at

\* the transcription backend answers
TranscriptionReturns ==
    /\ \E b \in BackendAnswersFor(audio) : TranscriptionAnswered(b)
    /\ UNCHANGED cancelled_at

\* the task running recognize is cancelled while a request is in flight:
\* CancelledError is raised at the await; no handler of the call catches it,
\* so it leaves _recognize_impl at once (were it caught, it would be handled
\* as a failed request)
Cancel ==
    /\ pc \in {"detecting", "transcribing"}
    /\ cancelled_at' = pc
    /\ IF CaughtByExceptException("CancelledError")
       THEN \/ DetectionAnswered([outcome |-> "exception", language |-> Absent,
                                  is_indian |-> FALSE])
            \/ TranscriptionAnswered(<< "exception", Absent, "exception" >>)
       ELSE /\ pc' = "idle"
            /\ raised' = TRUE
            /\ UNCHANGED aux_vars
            /\ result' = NoEvent
            /\ dispatch' = [i \in DOMAIN dispatch |->
                               [dispatch[i] EXCEPT !.outcome = "cancelled"]]
            /\ UNCHANGED << language_mode, language_counts, detection_count,
                            locked_language, use_aibharath, aibharath_language,
                            whisper_language, ncalls, vote_log, lock_count, was_locked,
                            audio, detect_requests, detected, service_flag,
                            detect_response, client_session, sessions_made, aclose_state,
                            before >>

NextAsync == BeginRecognize \/ DetectionReturns \/ TranscriptionReturns \/ Cancel

SpecAsync == Init /\ [][NextAsync]_vars

\* ------------------------------------------------------------ SpecText
\* transcripts and translations a backend can answer with
Texts == {"namaste", "vanakkam"}
Translations == {"hello", "welcome"}

\* the JSON bodies of a 200 answer of a transcription backend: each field a
\* string, the empty string, JSON null or absent
Bodies == [text : Texts \cup {"", None, Absent},
           translated_text : Translations \cup {"", None, Absent}]

\* the 200 answers an adapter reads; translate_to_english is an option of the
\* AIBharath adapter only
Replies ==
    [adapter : {"aibharath"}, translate_to_english : BOOLEAN, data : Bodies]
    \cup [adapter : {"whisper"}, translate_to_english : {FALSE}, data : Bodies]

\* dict.get(key, default)
JsonGet(data, key, default) == IF data[key] = Absent THEN default ELSE data[key]

\* mutant of AIBharathText: the translate_to_english option is not looked at
AIBharathText_OptionIgnored(translate_to_english, data) ==
    LET original_text   == JsonGet(data, "text", "")
        translated_text == JsonGet(data, "translated_text", None)
    IN  IF Truthy(translated_text) THEN translated_text ELSE original_text

\* AIBharath STT._recognize_impl, lines 175-187: the text of a 200 answer
AIBharathText(translate_to_english, data) ==
    LET original_text   == JsonGet(data, "text", "")
        translated_text == JsonGet(data, "translated_text", None)
    IN  IF translate_to_english /\ Truthy(translated_text)
        THEN translated_text ELSE original_text

\* Whisper STT._recognize_impl, lines 155-165: the text of a 200 answer; a
\* JSON null makes text[:100] raise TypeError inside the try, and the handler
\* sets text to ""
WhisperText(data) ==
    LET text == JsonGet(data, "text", "")
    IN  IF text = None THEN "" ELSE text

\* a session at rest, and a 200 answer about to be read by an adapter
InitText ==
    /\ SessionAtRest
    /\ reply \in Replies
    /\ event_text = Absent
    /\ frames = << >>
    /\ audio_data = NotRun
    /\ audio_again = NotRun
    /\ suspended = NoneRunning

\* the adapter reads the 200 answer and makes its SpeechEvent
ReadReply ==
    /\ event_text = Absent
    /\ event_text' = IF reply.adapter = "aibharath"
                     THEN AIBharathText(reply.translate_to_english, reply.data)
                     ELSE WhisperText(reply.data)
    /\ UNCHANGED << reply, frames, audio_data, audio_again, suspended >>
    /\ UNCHANGED session_vars

NextText == ReadReply

SpecText == InitText /\ [][NextText]_vars

\* ------------------------------------------------------------ SpecNorm
TARGET_SAMPLE_RATE == 16000

\* sample rates and channel counts a frame carries, sample values it holds
SampleRates == {16000, 48000}
ChannelCounts == {1, 2, 3}
SampleValues == {-3, 2}

\* the data of a frame of c channels: interleaved samples, a whole number of
\* sample-frames
FrameData(c) ==
    UNION { [1..n -> SampleValues] : n \in {k \in 0..MaxSamples : k % c = 0} }

\* rtc.AudioFrame
AudioFrames ==
    UNION { [sample_rate : SampleRates, num_channels : {c}, data : FrameData(c)] :
            c \in ChannelCounts }

\* an AudioBuffer: a list of frames
Buffers == UNION { [1..k -> AudioFrames] : k \in 0..MaxFrames }

\* the bytes of int16 samples, little-endian two's complement: bytes(frame.data),
\* ndarray.tobytes()
RECURSIVE ToBytes(_)
ToBytes(samples) ==
    IF samples = << >> THEN << >>
    ELSE LET u == samples[1] % 65536
         IN  << u % 256, u \div 256 >> \o ToBytes(Tail(samples))

\* np.frombuffer(..., dtype=np.int16)
RECURSIVE FromBuffer(_)
FromBuffer(bytes) ==
    IF bytes = << >> THEN << >>
    ELSE LET u == bytes[1] + 256 * bytes[2]
         IN  << IF u >= 32768 THEN u - 65536 ELSE u >> \o FromBuffer(Tail(Tail(bytes)))

\* mean of two int16 as float64, then astype(np.int16): truncation toward zero
MeanAsInt16(a, b) ==
    IF a + b >= 0 THEN (a + b) \div 2 ELSE -((-(a + b)) \div 2)

\* mutant of FramePCM: every frame is taken for a two-channel frame
FramePCM_AlwaysPairs(frame) ==
    LET samples == FromBuffer(ToBytes(frame.data))
    IN  [i \in 1..(Len(samples) \div 2) |->
            MeanAsInt16(samples[2 * i - 1], samples[2 * i])]

\* lines 96-98: the samples of one frame; a frame of exactly two channels is
\* reshaped to pairs and averaged, any other frame is taken as it is
FramePCM(frame) ==
    LET samples == FromBuffer(ToBytes(frame.data))
    IN  IF frame.num_channels = 2
        THEN [i \in 1..(Len(samples) \div 2) |->
                 MeanAsInt16(samples[2 * i - 1], samples[2 * i])]
        ELSE samples

\* np.concatenate(audio_chunks) of the frames' samples, in order
RECURSIVE Concatenate(_)
Concatenate(buf) ==
    IF buf = << >> THEN << >>
    ELSE Concatenate(SubSeq(buf, 1, Len(buf) - 1)) \o FramePCM(buf[Len(buf)])

\* sample_rate after the loop of lines 93-99: the rate of the last frame
LoopSampleRate(buf) == buf[Len(buf)].sample_rate

\* mutant of NeedsResample: the resampler is always run
NeedsResample_Always(rate) == TRUE

\* if sample_rate != TARGET_SAMPLE_RATE (line 107)
NeedsResample(rate) == rate # TARGET_SAMPLE_RATE

\* the number of samples rtc.AudioResampler gives for n samples at rate: n
\* scaled by the ratio of the rates, rounded either way
ResampledLengths(n, rate) ==
    { (n * TARGET_SAMPLE_RATE) \div rate,
      (n * TARGET_SAMPLE_RATE + rate - 1) \div rate }

\* lines 108-121: what audio_data can be after the resampler ran on samples
\* at rate; the values of its output are the resampler's; "if resampled"
\* keeps the samples as they are when the resampler gives no frame
ResamplerOutcomes(samples, rate) ==
    UNION { IF n = 0 THEN {samples, << >>} ELSE [1..n -> SampleValues] :
            n \in ResampledLengths(Len(samples), rate) }

\* lines 89-121: what the normalisation of a buffer can leave
NormalizeOutcomes(buf) ==
    IF buf = << >> THEN {ReturnedEarly}
    ELSE IF NeedsResample(LoopSampleRate(buf))
    THEN { Samples(pcm) : pcm \in ResamplerOutcomes(Concatenate(buf), LoopSampleRate(buf)) }
    ELSE {Samples(Concatenate(buf))}

\* a session at rest, and a buffer about to be normalised
InitNorm ==
    /\ SessionAtRest
    /\ reply = NoReply
    /\ event_text = Absent
    /\ frames \in Buffers
    /\ audio_data = NotRun
    /\ audio_again = NotRun
    /\ suspended = NoneRunning

\* the normalisation of the buffer
Normalize ==
    /\ audio_data = NotRun
    /\ audio_data' \in NormalizeOutcomes(frames)
    /\ UNCHANGED << reply, event_text, frames, audio_again, suspended >>
    /\ UNCHANGED session_vars

\* the normalisation of its own output, handed over as one mono 16 kHz frame
NormalizeAgain ==
    /\ audio_data.state = "samples"
    /\ audio_again = NotRun
    /\ audio_again' \in NormalizeOutcomes(<< [sample_rate |-> TARGET_SAMPLE_RATE,
                                              num_channels |-> 1, data |-> audio_data.pcm] >>)
    /\ UNCHANGED << reply, event_text, frames, audio_data, suspended >>
    /\ UNCHANGED session_vars

NextNorm == Normalize \/ NormalizeAgain

SpecNorm == InitNorm /\ [][NextNorm]_vars

\* --------------------------------------------------------- SpecOverlap
\* STT._recognize_impl from the return of the detection to the transcription
\* request (lines 172-198) on the RoutingState as it is at that moment, which
\* another call may have changed since this call passed line 167: the vote,
\* _lock_language when detection_count has reached the quorum, the
\* update_options of the routing
AfterDetection(counts, count, locked, use, ai_lang, lang) ==
    LET voted    == Truthy(lang)
        counts1  == IF voted THEN CounterIncrement(counts, lang) ELSE counts
        count1   == IF voted THEN count + 1 ELSE count
        locks    == voted /\ QuorumReached(count1)
        lock     == LockLanguage(counts1)
        locked1  == IF locks THEN lock.most_common ELSE locked
        use1     == IF locks THEN lock.use_aibharath ELSE use
        ai_lang1 == IF locks /\ use1 THEN AIBharathUpdateOptions(ai_lang, locked1) ELSE ai_lang
        ai_lang2 == IF ~Truthy(locked1) /\ IsIndian(lang)
                    THEN AIBharathUpdateOptions(ai_lang1, lang) ELSE ai_lang1
    IN  [ voted |-> voted, language_counts |-> counts1, detection_count |-> count1,
          locks |-> locks, locked_language |-> locked1, use_aibharath |-> use1,
          aibharath_language |-> ai_lang2 ]

\* an auto-mode session just constructed, no call running
InitOverlap ==
    /\ SessionAtRest
    /\ AuxInit

\* call k enters _recognize_impl with a buffer of frames: a locked session
\* sends it to the locked adapter (line 168), an unlocked one to the detection
\* service (line 171)
BeginOverlapped(k) ==
    /\ ncalls < MaxCalls
    /\ suspended[k] = "idle"
    /\ suspended' = [suspended EXCEPT ![k] = IF IsLocked(locked_language)
                                              THEN "transcribing" ELSE "detecting"]
    /\ ncalls' = ncalls + 1
    /\ UNCHANGED << language_mode, language_counts, detection_count, locked_language,
                    use_aibharath, aibharath_language, whisper_language, vote_log,
                    lock_count, was_locked, audio, detect_requests, detected, service_flag,
                    detect_response, raised, client_session, sessions_made, aclose_state,
                    pc, before, cancelled_at, dispatch, result >>
    /\ UNCHANGED << reply, event_text, frames, audio_data, audio_again >>

\* the detection request of call k is answered: lines 171-198 run to the
\* await of the transcription request
DetectionAnsweredOverlapped(k) ==
    /\ suspended[k] = "detecting"
    /\ \E resp \in DetectResponses :
       \E det \in {DetectLanguageVoxlingua("frames", resp)} :
       \E r \in {AfterDetection(language_counts, detection_count, locked_language,
                                 use_aibharath, aibharath_language, det.lang)} :
          /\ language_counts' = r.language_counts
          /\ detection_count' = r.detection_count
          /\ vote_log' = IF r.voted THEN Append(vote_log, det.lang) ELSE vote_log
          /\ locked_language' = r.locked_language
          /\ use_aibharath' = r.use_aibharath
          /\ lock_count' = IF r.locks THEN lock_count + 1 ELSE lock_count
          /\ aibharath_language' = r.aibharath_language
    /\ suspended' = [suspended EXCEPT ![k] = "transcribing"]
    /\ UNCHANGED << language_mode, whisper_language, ncalls, was_locked, audio,
                    detect_requests, detected, service_flag, detect_response, raised,
                    client_session, sessions_made, aclose_state, pc, before, cancelled_at,
                    dispatch, result >>
    /\ UNCHANGED << reply, event_text, frames, audio_data, audio_again >>

\* the transcription request of call k is answered and the call returns
TranscriptionAnsweredOverlapped(k) ==
    /\ suspended[k] = "transcribing"
    /\ suspended' = [suspended EXCEPT ![k] = "idle"]
    /\ UNCHANGED session_vars
    /\ UNCHANGED << reply, event_text, frames, audio_data, audio_again >>

NextOverlap ==
    \E k \in Overlapping :
        \/ BeginOverlapped(k)
        \/ DetectionAnsweredOverlapped(k)
        \/ TranscriptionAnsweredOverlapped(k)

SpecOverlap == InitOverlap /\ [][NextOverlap]_vars

\* ------------------------------------------------------------ SpecLock
\* the sequences of votes a tally is made of
VoteSequences == UNION { [1..k -> DetectLangs] : k \in 1..MaxVotes }

\* state.language_counts[detected] += 1 for each vote in turn
RECURSIVE TallyOf(_)
TallyOf(votes) ==
    IF votes = << >> THEN << >>
    ELSE CounterIncrement(TallyOf(SubSeq(votes, 1, Len(votes) - 1)), votes[Len(votes)])

\* an unlocked auto-mode session holding the tally of some sequence of votes
InitLock ==
    /\ language_mode = "auto"
    /\ vote_log \in VoteSequences
    /\ language_counts = TallyOf(vote_log)
    /\ detection_count = Len(vote_log)
    /\ locked_language = None
    /\ use_aibharath = FALSE
    /\ aibharath_language = "hi"
    /\ whisper_language = "auto"
    /\ ncalls = 0
    /\ lock_count = 0
    /\ was_locked = FALSE
    /\ audio = "none"
    /\ detect_requests = 0
    /\ detected = None
    /\ service_flag = FALSE
    /\ detect_response = NoResponse
    /\ raised = FALSE
    /\ client_session = [i \in Instances |-> 0]
    /\ sessions_made = [i \in Instances |-> 0]
    /\ aclose_state = "no"
    /\ pc = "idle"
    /\ before = Snapshot(<< >>, 0, None, FALSE, << >>)
    /\ cancelled_at = "no"
    /\ dispatch = << >>
    /\ result = NoEvent
    /\ AuxInit

\* STT._lock_language (lines 200-230) on the tally
LockLanguageStep ==
    /\ lock_count = 0
    /\ \E r \in {LockLanguage(language_counts)} :
          /\ ~r.raised
          /\ locked_language' = r.most_common
          /\ use_aibharath' = r.use_aibharath
          /\ aibharath_language' =
                IF r.use_aibharath
                THEN AIBharathUpdateOptions(aibharath_language, r.most_common)
                ELSE aibharath_language
    /\ lock_count' = lock_count + 1
    /\ UNCHANGED async_vars
    /\ UNCHANGED aux_vars
    /\ UNCHANGED << language_mode, language_counts, detection_count, whisper_language,
                    ncalls, vote_log, was_locked, audio, detect_requests, detected,
                    service_flag, detect_response, raised, client_session,
                    sessions_made, aclose_state, dispatch, result >>

NextLock == LockLanguageStep

SpecLock == InitLock /\ [][NextLock]_vars

\* ========================================================== properties
\* the votes cast so far, read off the log of votes
Voted == { vote_log[i] : i \in DOMAIN vote_log }
VotesFor(l) == Cardinality({ i \in DOMAIN vote_log : vote_log[i] = l })
FirstVote(l) == CHOOSE i \in DOMAIN vote_log :
                    vote_log[i] = l /\ \A j \in DOMAIN vote_log : vote_log[j] = l => i <= j
RegionalVoted == Voted \cap INDIAN_LANGUAGES
GeneralVoted == Voted \ INDIAN_LANGUAGES
MaxVotesIn(S) == IF S = {} THEN 0
                 ELSE CHOOSE m \in {VotesFor(l) : l \in S} : \A l \in S : VotesFor(l) <= m
RegionalWins == RegionalVoted # {} /\ MaxVotesIn(RegionalVoted) >= MaxVotesIn(GeneralVoted)

\* C1: in an auto-mode session locked_language is None while
\* detection_count < 3, and it is assigned exactly once: _lock_language runs
\* in the step in which a successful detection takes detection_count to 3,
\* and in no other step.
C1_VoteQuorum ==
    /\ [](language_mode = "auto" =>
            /\ (detection_count < MIN_DETECTIONS_FOR_LOCK => locked_language = None)
            /\ lock_count <= 1)
    /\ [][language_mode = "auto" =>
            /\ (locked_language' # locked_language \/ lock_count' # lock_count) =>
                  /\ detection_count = MIN_DETECTIONS_FOR_LOCK - 1
                  /\ detection_count' = MIN_DETECTIONS_FOR_LOCK
                  /\ Truthy(detected')
            /\ (detection_count < MIN_DETECTIONS_FOR_LOCK
                /\ detection_count' >= MIN_DETECTIONS_FOR_LOCK) =>
                  /\ locked_language = None
                  /\ locked_language' # None
                  /\ lock_count' = lock_count + 1]_vars

C1_Witness ==
    /\ language_mode = "auto"
    /\ ~was_locked
    /\ ncalls > MIN_DETECTIONS_FOR_LOCK
    /\ detection_count = MIN_DETECTIONS_FOR_LOCK
    /\ locked_language # None
    /\ lock_count = 1

\* C2: once locked_language is set, a recognize call changes neither
\* locked_language nor use_aibharath, and leaves language_counts and
\* detection_count as they are.
C2_NoRelock ==
    [][locked_language # None =>
          /\ locked_language' = locked_language
          /\ use_aibharath' = use_aibharath
          /\ language_counts' = language_counts
          /\ detection_count' = detection_count
          /\ lock_count' = lock_count]_vars

C2_Witness ==
    /\ language_mode = "auto"
    /\ lock_count = 1
    /\ was_locked
    /\ audio = "frames"
    /\ ncalls = MaxCalls

\* C3 as stated: in every session, of whatever language_mode,
\* locked_language is set iff detection_count has reached the quorum.
C3_Original == (locked_language # None) <=> (detection_count >= MIN_DETECTIONS_FOR_LOCK)

\* C3 amended: in an auto-mode session locked_language is set iff
\* detection_count has reached the quorum; a session constructed with a fixed
\* language is locked to it from construction on, with detection_count = 0.
C3_LockedIffQuorumInAuto ==
    /\ language_mode = "auto" =>
          ((locked_language # None) <=> (detection_count >= MIN_DETECTIONS_FOR_LOCK))
    /\ language_mode # "auto" =>
          (locked_language = language_mode /\ detection_count = 0)

C3_Witness ==
    /\ language_mode = "en"
    /\ ncalls > 0
    /\ locked_language = "en"
    /\ detection_count = 0

\* C4: when some regional language was voted and the highest regional count
\* is at least the highest general count, _lock_language locks to a regional
\* language of the highest regional count with use_aibharath = TRUE; the
\* tally {en: 3, hi: 3} resolves to hi.
C4_RegionalPreference ==
    (lock_count = 1 /\ RegionalWins) =>
        /\ use_aibharath
        /\ locked_language \in RegionalVoted
        /\ VotesFor(locked_language) = MaxVotesIn(RegionalVoted)
        /\ (VotesFor("en") = 3 /\ VotesFor("hi") = 3 => locked_language = "hi")

C4_Witness ==
    /\ lock_count = 1
    /\ vote_log = << "en", "en", "en", "hi", "hi", "hi" >>
    /\ locked_language = "hi"
    /\ use_aibharath

\* C5: when regional wins and several regional languages share the highest
\* regional count, the lock is the one of them whose first vote came first.
C5_TieBreakFirstSeen ==
    (lock_count = 1 /\ RegionalWins) =>
        \A l \in RegionalVoted :
            VotesFor(l) = MaxVotesIn(RegionalVoted) =>
                /\ VotesFor(locked_language) = VotesFor(l)
                /\ FirstVote(locked_language) <= FirstVote(l)

C5_Witness ==
    /\ lock_count = 1
    /\ vote_log = << "en", "kn", "hi", "hi", "kn" >>
    /\ locked_language = "kn"

\* C6: when no regional language was voted, or the highest regional count is
\* below the highest general count, and some general language was voted,
\* _lock_language locks to a general language of the highest general count
\* with use_aibharath = FALSE.
C6_GeneralBranch ==
    (lock_count = 1 /\ ~RegionalWins /\ GeneralVoted # {}) =>
        /\ ~use_aibharath
        /\ locked_language \in GeneralVoted
        /\ VotesFor(locked_language) = MaxVotesIn(GeneralVoted)

C6_Witness ==
    /\ lock_count = 1
    /\ vote_log = << "hi", "fr", "en", "fr" >>
    /\ locked_language = "fr"
    /\ ~use_aibharath

\* the adapter use_aibharath stands for
SelectedAdapter == IF use_aibharath THEN "aibharath" ELSE "whisper"

\* C7: in an auto-mode session three votes for kn lock the session to kn with
\* use_aibharath = TRUE; the utterance that casts the third vote and every
\* later one goes to the AIBharath adapter with language kn, and the later
\* ones issue no detection request.
C7_ThreeKnScenario ==
    (language_mode = "auto" /\ vote_log = << "kn", "kn", "kn" >>) =>
        /\ locked_language = "kn"
        /\ use_aibharath
        /\ Len(dispatch) = 1
        /\ dispatch[1].adapter = "aibharath"
        /\ dispatch[1].language = "kn"
        /\ dispatch[1].request = IsSent(audio)
        /\ (was_locked => detect_requests = 0)

C7_Witness ==
    /\ language_mode = "auto"
    /\ vote_log = << "kn", "kn", "kn" >>
    /\ ncalls = MIN_DETECTIONS_FOR_LOCK + 1
    /\ was_locked
    /\ audio = "frames"
    /\ dispatch = << [adapter |-> "aibharath", language |-> "kn", request |-> TRUE,
                      outcome |-> "ok200"] >>

\* C8 as stated: an utterance recognized on a locked session goes to the
\* adapter use_aibharath selects, with language = locked_language, for
\* regional and general locks alike.
C8_Original ==
    (was_locked /\ locked_language # None) =>
        /\ Len(dispatch) = 1
        /\ dispatch[1].adapter = SelectedAdapter
        /\ dispatch[1].language = locked_language

\* C9 as stated: the utterance whose vote reaches the quorum goes to the
\* adapter of the lock just computed, with language = locked_language.
C9_Original ==
    (ncalls > 0 /\ ~was_locked /\ locked_language # None) =>
        /\ Len(dispatch) = 1
        /\ dispatch[1].adapter = SelectedAdapter
        /\ dispatch[1].language = locked_language

\* C10 as stated: an utterance that voted and left the session unlocked goes
\* to the regional adapter iff the is_indian flag of the detection response
\* is true.
C10_Original ==
    (ncalls > 0 /\ ~was_locked /\ Truthy(detected) /\ locked_language = None) =>
        /\ Len(dispatch) = 1
        /\ (dispatch[1].adapter = "aibharath") = service_flag
        /\ (dispatch[1].adapter = "whisper") = ~service_flag

\* C10 amended: an utterance that voted and left the session unlocked goes to
\* the regional adapter iff its detected language is in INDIAN_LANGUAGES, and
\* to the general adapter otherwise, whatever the tally and whatever the
\* is_indian flag of the detection response.
C10_RoutedByRegionalSet ==
    (ncalls > 0 /\ ~was_locked /\ Truthy(detected) /\ locked_language = None) =>
        /\ Len(dispatch) = 1
        /\ (dispatch[1].adapter = "aibharath") = (detected \in INDIAN_LANGUAGES)
        /\ (dispatch[1].adapter = "whisper") = (detected \notin INDIAN_LANGUAGES)

C10_Witness ==
    /\ ~was_locked
    /\ locked_language = None
    /\ vote_log = << "en", "kn" >>
    /\ detected = "kn"
    /\ ~service_flag
    /\ dispatch = << [adapter |-> "aibharath", language |-> "kn", request |-> TRUE,
                      outcome |-> "ok200"] >>

\* the first adapter invocation of the last call sent its request and the
\* request failed: transport error or timeout, or a non-200 status
FirstRequestFailed ==
    /\ ncalls > 0
    /\ dispatch # << >>
    /\ dispatch[1].request
    /\ dispatch[1].outcome \in {"non200", "exception"}

\* the detection request of the last call failed: non-200 status, transport
\* error or timeout
DetectionFailed ==
    /\ ncalls > 0
    /\ ~was_locked
    /\ detect_requests = 1
    /\ detect_response.outcome \in {"non200", "exception"}

\* C11 as stated: when the request of the adapter selected for an utterance
\* fails, the other adapter is invoked exactly once for that utterance, and
\* the call returns (an empty transcript when that one fails too).
C11_Original ==
    FirstRequestFailed =>
        /\ Len(dispatch) = 2
        /\ dispatch[2].adapter # dispatch[1].adapter
        /\ ~raised
        /\ (dispatch[2].outcome # "ok200" => result.text = "")

\* C12 as stated: after a failed detection the utterance goes to the Whisper
\* adapter first, and the AIBharath adapter is invoked for it when the
\* Whisper request fails.
C12_Original ==
    DetectionFailed =>
        /\ dispatch # << >>
        /\ dispatch[1].adapter = "whisper"
        /\ (FirstRequestFailed =>
              (Len(dispatch) = 2 /\ dispatch[2].adapter = "aibharath"))

\* the last step was a recognize call that recorded no vote and left the lock
NoVoteTaken ==
    /\ language_counts' = language_counts
    /\ detection_count' = detection_count
    /\ vote_log' = vote_log
    /\ locked_language' = locked_language
    /\ use_aibharath' = use_aibharath
    /\ lock_count' = lock_count

\* C13: a recognize call whose detection request fails (non-200, transport
\* error or timeout) records no vote and leaves language_counts,
\* detection_count, locked_language and use_aibharath as they were, and the
\* call still returns a transcript.
C13_DetectionFailureNoVote ==
    /\ [][(ncalls' = ncalls + 1 /\ DetectionFailed') => NoVoteTaken]_vars
    /\ [](DetectionFailed => (~raised /\ Len(dispatch) = 1 /\ result # NoEvent))

C13_Witness ==
    /\ DetectionFailed
    /\ detect_response.outcome = "non200"
    /\ detection_count = 2
    /\ ~raised
    /\ result.text = "text"

\* C14 as stated: no recognize call raises to its caller, whatever the audio
\* (empty or unnormalizable), the detection answer and the backends' answers.
C14_Original == ~raised

\* the last call sent nothing: no detection request, no transcription request
NoRequestSent ==
    /\ detect_requests = 0
    /\ \A i \in DOMAIN dispatch : ~dispatch[i].request

\* C15: a recognize call with no audio frame returns an empty-text
\* transcript, sends no detection request and no transcription request, on an
\* unlocked and on a locked session, and leaves RoutingState as it was.
C15_EmptyInput ==
    /\ [][(ncalls' = ncalls + 1 /\ audio' = "none") => NoVoteTaken]_vars
    /\ []((ncalls > 0 /\ audio = "none") =>
            (NoRequestSent /\ ~raised /\ Len(dispatch) = 1 /\ result.text = ""))

C15_Witness ==
    /\ ncalls > 0
    /\ audio = "none"
    /\ ~was_locked
    /\ detection_count = 2
    /\ dispatch[1].adapter = "whisper"
    /\ result.text = ""

\* C16 as stated: frames that together hold no sample are treated as empty
\* audio: an empty transcript, no detection request, no transcription request.
C16_Original ==
    (ncalls > 0 /\ audio = "zero") => (NoRequestSent /\ result.text = "")

\* the detection response of the last call was a 200 that is malformed
BodyUnparsable ==
    ncalls > 0 /\ ~was_locked /\ detect_requests = 1 /\ detect_response.outcome = "badjson"
LanguageFieldMissing ==
    /\ ncalls > 0 /\ ~was_locked /\ detect_requests = 1
    /\ detect_response.outcome = "ok200" /\ detect_response.language = Absent

C18_FixedLanguage ==
    language_mode # "auto" =>
        /\ locked_language = language_mode
        /\ use_aibharath = (language_mode \in INDIAN_LANGUAGES)
        /\ detect_requests = 0
        /\ detect_response = NoResponse
        /\ vote_log = << >>
        /\ detection_count = 0
        /\ lock_count = 0
        /\ (ncalls > 0 => was_locked)

C18_Witness ==
    /\ language_mode = "kn"
    /\ ncalls = MaxCalls
    /\ locked_language = "kn"
    /\ audio = "frames"
    /\ dispatch[1].adapter = "aibharath"
    /\ dispatch[1].request

\* C20: until aclose, the router and each adapter hold no client session
\* before their first request, make one when they send it, and send every
\* later request through that same session: an instance never makes a second
\* one.
C20_LazyReusedSession ==
    /\ [](aclose_state = "no" =>
            \A i \in Instances :
                /\ sessions_made[i] <= 1
                /\ client_session[i] = sessions_made[i])
    /\ [][ncalls' = ncalls + 1 =>
            \A i \in Instances :
                IF Sends(i, detect_requests', dispatch')
                THEN /\ client_session'[i] # 0
                     /\ client_session[i] # 0 =>
                           /\ client_session'[i] = client_session[i]
                           /\ sessions_made'[i] = sessions_made[i]
                ELSE /\ client_session'[i] = client_session[i]
                     /\ sessions_made'[i] = sessions_made[i]]_vars

C20_Witness ==
    /\ aclose_state = "no"
    /\ ncalls = MaxCalls
    /\ \A i \in Instances : client_session[i] = 1 /\ sessions_made[i] = 1
    /\ detect_requests = 0
    /\ was_locked
    /\ dispatch[1].request

\* RoutingState and the log of votes are what they were when the last call began
AsBeforeTheCall ==
    Snapshot(language_counts, detection_count, locked_language, use_aibharath, vote_log) = before

\* C19 as stated: after a recognize call was cancelled with its detection or
\* its transcription request in flight, language_counts, detection_count and
\* the lock are what they were before the call, and no fallback request was
\* made.
C19_Original ==
    (pc = "idle" /\ cancelled_at # "no") => (AsBeforeTheCall /\ Len(dispatch) <= 1)

\* C19 amended: a call cancelled with its detection request in flight leaves
\* at once, with no vote and no adapter invoked; a call cancelled with its
\* transcription request in flight leaves at once with no second adapter
\* invoked, and RoutingState is as before the call unless the detection of
\* that same call had succeeded: then its vote, and the lock when that vote
\* reached the quorum, were recorded before the transcription began and stay.
C19_Cancellation ==
    /\ cancelled_at = "detecting" =>
          (pc = "idle" /\ raised /\ AsBeforeTheCall /\ dispatch = << >>)
    /\ cancelled_at = "transcribing" =>
          /\ pc = "idle" /\ raised /\ Len(dispatch) = 1
          /\ dispatch[1].outcome = "cancelled"
          /\ (was_locked \/ ~Truthy(detected)) => AsBeforeTheCall
          /\ (~was_locked /\ Truthy(detected)) =>
                /\ vote_log = Append(before.vote_log, detected)
                /\ detection_count = before.detection_count + 1
                /\ (locked_language # None) = (detection_count >= MIN_DETECTIONS_FOR_LOCK)

C19_Witness ==
    /\ pc = "idle"
    /\ cancelled_at = "transcribing"
    /\ before.locked_language = None
    /\ before.detection_count = 2
    /\ detection_count = 3
    /\ locked_language = "kn"
    /\ dispatch[1].adapter = "aibharath"

\* C21 as stated: once aclose was invoked, whether it returned or raised, the
\* router's client session and both adapters' client sessions are closed.
C21_Original ==
    aclose_state # "no" => \A i \in Instances : client_session[i] = 0

\* translation was requested and the answer holds a translated string
TranslationUsable ==
    /\ reply.translate_to_english
    /\ reply.data.translated_text \notin {Absent, None, ""}

Canonical(buf) ==
    \A i \in DOMAIN buf : buf[i].num_channels = 1 /\ buf[i].sample_rate = TARGET_SAMPLE_RATE

\* the samples of the frames one after the other, as they were handed in
RECURSIVE InputSamples(_)
InputSamples(buf) ==
    IF buf = << >> THEN << >> ELSE buf[1].data \o InputSamples(Tail(buf))

\* C23: of a buffer of canonical frames the normalised samples are the input
\* samples in order, none changed, dropped or added, and normalising that
\* output again gives the same bytes.
C23_Idempotence ==
    (frames # << >> /\ Canonical(frames)) =>
        /\ audio_data # NotRun => audio_data = Samples(InputSamples(frames))
        /\ audio_again # NotRun =>
              /\ audio_again.state = "samples"
              /\ ToBytes(audio_again.pcm) = ToBytes(audio_data.pcm)

C23_Witness ==
    /\ Len(frames) = 2
    /\ Canonical(frames)
    /\ frames[1].data = << -3, 2 >>
    /\ frames[2].data = << 2, -3, -3 >>
    /\ audio_data = Samples(<< -3, 2, 2, -3, -3 >>)
    /\ audio_again = audio_data

\* the sum of a sequence of samples
RECURSIVE SumOf(_)
SumOf(samples) == IF samples = << >> THEN 0 ELSE samples[1] + SumOf(Tail(samples))

\* the arithmetic mean of the channel samples of each sample-frame of a frame,
\* truncated to an integer
MeanOfChannels(frame) ==
    LET c == frame.num_channels
        truncated(total) == IF total >= 0 THEN total \div c ELSE -((-total) \div c)
    IN  [i \in 1..(Len(frame.data) \div c) |->
            truncated(SumOf(SubSeq(frame.data, c * (i - 1) + 1, c * i)))]

\* the frames' channel means one after the other
RECURSIVE DownmixedInput(_)
DownmixedInput(buf) ==
    IF buf = << >> THEN << >> ELSE MeanOfChannels(buf[1]) \o DownmixedInput(Tail(buf))

\* C24 as stated: of frames with more than one channel (two, three, ...), at
\* 16 kHz so that nothing is resampled, the normalised output holds one
\* sample per input sample-frame, the truncated arithmetic mean of that
\* sample-frame's channel samples (which no permutation of the channels
\* changes).
C24_Original ==
    ( /\ audio_data.state = "samples"
      /\ \A i \in DOMAIN frames :
            frames[i].sample_rate = TARGET_SAMPLE_RATE /\ frames[i].num_channels > 1 )
    => audio_data.pcm = DownmixedInput(frames)

\* the sample-frames of a frame
SampleFrames(frame) == Len(frame.data) \div frame.num_channels

\* the duration of the input, each frame at its own rate, in 1/48000 s
RECURSIVE InputDuration(_)
InputDuration(buf) ==
    IF buf = << >> THEN 0
    ELSE SampleFrames(buf[1]) * (48000 \div buf[1].sample_rate) + InputDuration(Tail(buf))

\* the duration of n samples at 16 kHz, in 1/48000 s
OutputDuration(n) == n * (48000 \div TARGET_SAMPLE_RATE)

\* C25 as stated, for buffers of mono and two-channel frames each holding at
\* least one 16 kHz sample period of audio: the normalised output lasts as
\* long as the input, each frame taken at its own sample rate, to within one
\* output sample; frames of different sample rates included.
C25_Original ==
    ( /\ audio_data.state = "samples"
      /\ \A i \in DOMAIN frames :
            /\ frames[i].num_channels <= 2
            /\ SampleFrames(frames[i]) * TARGET_SAMPLE_RATE >= frames[i].sample_rate )
    => /\ OutputDuration(Len(audio_data.pcm)) - InputDuration(frames) <= OutputDuration(1)
       /\ InputDuration(frames) - OutputDuration(Len(audio_data.pcm)) <= OutputDuration(1)

\* the same with every frame at one sample rate: it holds, so what C25_Original
\* meets is the frames of different rates
SameRateDuration ==
    ( /\ audio_data.state = "samples"
      /\ \A i \in DOMAIN frames :
            /\ frames[i].num_channels <= 2
            /\ frames[i].sample_rate = frames[1].sample_rate
            /\ SampleFrames(frames[i]) * TARGET_SAMPLE_RATE >= frames[i].sample_rate )
    => /\ OutputDuration(Len(audio_data.pcm)) - InputDuration(frames) <= OutputDuration(1)
       /\ InputDuration(frames) - OutputDuration(Len(audio_data.pcm)) <= OutputDuration(1)

\* two-channel frames are averaged as C24 says
StereoDownmix ==
    ( /\ audio_data.state = "samples"
      /\ \A i \in DOMAIN frames :
            frames[i].sample_rate = TARGET_SAMPLE_RATE /\ frames[i].num_channels = 2 )
    => audio_data.pcm = DownmixedInput(frames)

\* C26 as stated: also when recognize calls of an auto-mode session overlap,
\* _lock_language runs once only, and locked_language and use_aibharath, once
\* set, are not written again.
C26_Original ==
    [][ /\ lock_count' <= 1
        /\ locked_language # None =>
              (locked_language' = locked_language /\ use_aibharath' = use_aibharath) ]_vars

\* with one call at a time the lock is taken once: what C26_Original meets is
\* calls that have all passed line 167 before the lock
OverlapNeeded ==
    lock_count > 1 => Len(vote_log) > MIN_DETECTIONS_FOR_LOCK

\* C27: when _lock_language locks by vote, the locked language is in the
\* tally and no language of the tally, regional or general, has more votes.
C27_MajorityVote ==
    lock_count = 1 =>
        /\ locked_language \in Voted
        /\ \A l \in Voted : VotesFor(l) <= VotesFor(locked_language)

C27_Witness ==
    /\ lock_count = 1
    /\ vote_log = << "hi", "en", "kn", "en", "en", "hi" >>
    /\ locked_language = "en"

\* C28: while locked_language is set, by vote or by a fixed language_mode,
\* use_aibharath is TRUE exactly when locked_language is one of
\* SUPPORTED_LANGUAGES; while it is not set, use_aibharath is FALSE.
C28_BackendFlag ==
    IF locked_language # None
    THEN use_aibharath = (\E i \in DOMAIN SUPPORTED_LANGUAGES :
                             SUPPORTED_LANGUAGES[i] = locked_language)
    ELSE ~use_aibharath

C28_Witness ==
    /\ language_mode = "auto"
    /\ lock_count = 1
    /\ vote_log = << "en", "hi", "hi" >>
    /\ locked_language = "hi"
    /\ use_aibharath
    /\ was_locked

\* the sum of the counts of the tally
RECURSIVE TallyTotal(_)
TallyTotal(counts) ==
    IF counts = << >> THEN 0 ELSE counts[1].n + TallyTotal(Tail(counts))

\* C29: with one recognize call at a time, detection_count is the sum of the
\* counts of language_counts, never decreases and never exceeds
\* MIN_DETECTIONS_FOR_LOCK: no vote is recorded after the lock.
C29_DetectionCount ==
    /\ [](/\ detection_count = TallyTotal(language_counts)
          /\ detection_count <= MIN_DETECTIONS_FOR_LOCK)
    /\ [][detection_count' >= detection_count]_vars

C29_Witness ==
    /\ detection_count = MIN_DETECTIONS_FOR_LOCK
    /\ Len(language_counts) = 3
    /\ was_locked
    /\ ncalls = MaxCalls
    /\ audio = "frames"

\* the transcription requests the last call sent to an adapter
RequestsTo(adapter) ==
    Cardinality({ i \in DOMAIN dispatch : dispatch[i].adapter = adapter /\ dispatch[i].request })

\* C30: a recognize call issues at most one detection request and at most two
\* transcription requests, at most one to each adapter, whatever the
\* detection service and the backends answer; a call on a locked session
\* issues no detection request.
C30_BoundedWork ==
    /\ detect_requests <= 1
    /\ RequestsTo("whisper") <= 1
    /\ RequestsTo("aibharath") <= 1
    /\ Len(dispatch) <= 2
    /\ was_locked => detect_requests = 0

C30_Witness ==
    /\ ~was_locked
    /\ detect_requests = 1
    /\ detect_response.outcome = "exception"
    /\ RequestsTo("whisper") = 1
    /\ dispatch[1].outcome = "exception"
    /\ ~raised

====
